---- MODULE Spec2Model ----
(***************************************************************************)
(* SoundSense backend: the ingestion / storage / query pipeline.           *)
(*                                                                         *)
(* State: the AppState behind the Arc<Mutex<..>> (readings, max, db), the  *)
(* two PostgreSQL tables reached through the Database handle               *)
(* (sensor_readings, audit_logs), and the record of the request being      *)
(* answered.  Every access to AppState and to the database happens inside  *)
(* the state mutex, so one handler run is one action; Respond hands the    *)
(* response back and frees the worker for the next request.                *)
(*                                                                         *)
(* Five specifications share the state:                                    *)
(*   Spec        one request at a time, all inputs and database outcomes;  *)
(*   ServerSpec  request tasks interleaved step by step around the lock;   *)
(*   FairServerSpec  ServerSpec under the scheduling of the runtime;       *)
(*   HubSpec     the per-worker broadcast channels and websocket sessions; *)
(*   CodecSpec   the pure functions of the codec applied to JSON bodies.   *)
(***************************************************************************)
EXTENDS Integers, Sequences, FiniteSets, TLC

(***************************************************************************)
(* Bounds and input domains                                                *)
(***************************************************************************)

\* Capacity given to AppState.max at construction (500 in the source); the
\* model runs the same code with a small capacity so that eviction happens.
CacheCapacity == 2

\* Accepted readings explored per behaviour: one eviction past a full cache.
MaxIngests == CacheCapacity + 1

\* Capacity of the broadcast channel: channel(256) in configure, scaled down.
QueueBound == 2

\* Ingestions begun while subscribers are served: enough to overrun the channel.
MaxPublished == QueueBound + 1

\* HttpServer workers (one per core by default), the request tasks in flight
\* and the websocket connections.
Workers == {"w1", "w2"}
Tasks == {"t1", "t2"}
Sessions == {"s1", "s2"}

\* Option<T>
None == <<>>
Some(x) == <<x>>
IsSome(o) == Len(o) = 1
Unwrap(o) == o[1]

\* Strings that the code inspects character by character are character
\* sequences; strings that are only compared are TLA+ strings.
Str_empty == <<>>
Str_blank == <<" ">>
Str_p1 == <<"p", "1">>
Str_d1 == <<"d", "1">>
Str_raw == <<"r", "a", "w">>
Str_Patient == <<"P", "a", "t", "i", "e", "n", "t", "/">>
Str_loinc == <<"h", "t", "t", "p", ":", "/", "/", "l", "o", "i", "n", "c", ".", "o", "r", "g">>
Str_http == <<"h", "t", "t", "p", ":", "/", "/">>
Str_https == <<"h", "t", "t", "p", "s", ":", "/", "/">>

\* f64 values: finite numbers, NaN and the two infinities.
F64(n) == [k |-> "num", n |-> n]
NaN == [k |-> "nan", n |-> 0]
PosInf == [k |-> "inf", n |-> 1]
NegInf == [k |-> "inf", n |-> -1]

PatientIds == {Str_empty, Str_blank, Str_p1}
DeviceIds == {Str_empty, Str_blank, Str_d1}
Units == {Str_empty, Str_raw}

\* A sample is a value measured at a timestamp.
Samples ==
    {[value |-> F64(200), ts |-> 1], [value |-> F64(75), ts |-> 2],
     [value |-> NaN, ts |-> 1], [value |-> PosInf, ts |-> 2], [value |-> NegInf, ts |-> 1]}

\* SensorReading payloads a client can post (code has the one variant Sound).
Readings ==
    {[patient_id |-> p, device_id |-> d, code |-> "Sound",
      value |-> m.value, unit |-> u, ts |-> m.ts] :
        p \in PatientIds, d \in DeviceIds, m \in Samples, u \in Units}

\* Claims attached to the request by the JWT middleware.
ClaimsSet == {[sub |-> "test-user", role |-> "user"]}

\* Identifiers Uuid::new_v4() can return.
Uuids == {1, 2}

\* ?limit= and ?code= of GET /api/fhir/Observation.
LimitInputs == {None, Some(0), Some(1), Some(2), Some(600)}
CodeInputs == {None, Some("sound"), Some("heart_rate")}

(***************************************************************************)
(* Pure helpers                                                            *)
(***************************************************************************)

Min(a, b) == IF a <= b THEN a ELSE b

Reverse(s) == [i \in 1..Len(s) |-> s[Len(s) + 1 - i]]

Take(s, n) == SubSeq(s, 1, Min(n, Len(s)))

IsWhitespace(c) == c = " "

RECURSIVE TrimStart(_)
TrimStart(s) ==
    IF s # <<>> /\ IsWhitespace(Head(s)) THEN TrimStart(Tail(s)) ELSE s

\* str::trim
Trim(s) == Reverse(TrimStart(Reverse(TrimStart(s))))

is_empty(s) == Len(s) = 0

StartsWith(s, p) == Len(s) >= Len(p) /\ SubSeq(s, 1, Len(p)) = p

Contains(s, c) == \E i \in 1..Len(s) : s[i] = c

is_finite(v) == v.k = "num"

Ok == "ok"

(***************************************************************************)
(* Observation codec: domain/models.rs, fhir.rs                            *)
(***************************************************************************)

\* Spellings of the "code" field a JSON body can carry: the five the enum
\* names, and others it does not.
Spellings ==
    {"sound", "SoundLevel", "sound_level", "SOUND_LEVEL", "Sound",
     "SOUND", "soundlevel", "heart_rate", ""}

\* Mutant: a spelling the enum does not name is read as the default variant.
SignalCode_deserialize_defaulting(s) == Some("Sound")

\* Deserialize for SignalCode: the variant named by rename or by an alias
\* (compared exactly, case included), or None for serde's unknown-variant
\* error.
SignalCode_deserialize(s) ==
    IF s = "sound" THEN Some("Sound")
    ELSE IF s \in {"SoundLevel", "sound_level", "SOUND_LEVEL", "Sound"} THEN Some("Sound")
    ELSE None

\* Serialize for SignalCode: the rename of the variant.
SignalCode_serialize(code) == CASE code = "Sound" -> "sound"

\* Mutant: the device is tested before the patient.
SensorReading_validate_device_first(r) ==
    IF is_empty(Trim(r.device_id)) THEN "device_id required"
    ELSE IF is_empty(Trim(r.patient_id)) THEN "patient_id required"
    ELSE IF ~is_finite(r.value) THEN "value must be finite"
    ELSE Ok

\* Mutant: the identifiers are tested for emptiness without trim().
SensorReading_validate_untrimmed(r) ==
    IF is_empty(r.patient_id) THEN "patient_id required"
    ELSE IF is_empty(r.device_id) THEN "device_id required"
    ELSE IF ~is_finite(r.value) THEN "value must be finite"
    ELSE Ok

\* SensorReading::validate
SensorReading_validate(r) ==
    IF is_empty(Trim(r.patient_id)) THEN "patient_id required"
    ELSE IF is_empty(Trim(r.device_id)) THEN "device_id required"
    ELSE IF ~is_finite(r.value) THEN "value must be finite"
    ELSE Ok

\* The (code, display) match of from_reading.
signal_coding(code) ==
    CASE code = "Sound" -> [system |-> Str_loinc, code |-> "sound", display |-> "Sound Level"]

\* Mutant: the reference names the resource type in lower case.
subject_reference_lowercase(patient_id) ==
    <<"p", "a", "t", "i", "e", "n", "t", "/">> \o patient_id

\* The subject reference built by from_reading: format!("Patient/{}", patient_id)
subject_reference(patient_id) == Str_Patient \o patient_id

\* Mutant: the observation is created with status preliminary.
from_reading_preliminary(r, id) ==
    [resource_type |-> "Observation",
     id |-> id,
     status |-> "preliminary",
     code |-> [coding |-> <<signal_coding(r.code)>>, text |-> signal_coding(r.code).display],
     subject |-> [reference |-> subject_reference(r.patient_id)],
     effective_date_time |-> r.ts,
     value_quantity |-> [value |-> r.value, unit |-> r.unit]]

\* FhirObservation::from_reading; id is the value Uuid::new_v4() returned.
from_reading(r, id) ==
    [resource_type |-> "Observation",
     id |-> id,
     status |-> "final",
     code |-> [coding |-> <<signal_coding(r.code)>>, text |-> signal_coding(r.code).display],
     subject |-> [reference |-> subject_reference(r.patient_id)],
     effective_date_time |-> r.ts,
     value_quantity |-> [value |-> r.value, unit |-> r.unit]]

valid_statuses ==
    {"registered", "preliminary", "final", "amended", "corrected", "cancelled",
     "entered-in-error", "unknown"}

\* The per-coding loop of FhirObservation::validate: the first error, or Ok.
RECURSIVE validate_codings(_)
validate_codings(cs) ==
    IF cs = <<>> THEN Ok
    ELSE IF is_empty(Head(cs).system) THEN "Coding system is required"
    ELSE IF ~StartsWith(Head(cs).system, Str_http) /\ ~StartsWith(Head(cs).system, Str_https)
        THEN "Coding system must be a valid URI"
    ELSE IF Head(cs).code = "" THEN "Coding code is required"
    ELSE validate_codings(Tail(cs))

\* Uuid::parse_str(id).is_ok(): identifiers are modelled by naturals, each a
\* well-formed UUID string.
Uuid_parse_str_ok(id) == id \in Nat

\* FhirObservation::validate
FhirObservation_validate(o) ==
    IF o.resource_type # "Observation" THEN "resourceType must be 'Observation'"
    ELSE IF ~Uuid_parse_str_ok(o.id) THEN "ID must be a valid UUID"
    ELSE IF o.status \notin valid_statuses THEN "Invalid status"
    ELSE IF o.code.coding = <<>> THEN "Observation must have at least one coding"
    ELSE IF validate_codings(o.code.coding) # Ok THEN validate_codings(o.code.coding)
    ELSE IF is_empty(o.subject.reference) THEN "Subject reference is required"
    ELSE IF ~Contains(o.subject.reference, "/")
        THEN "Subject reference must follow format: ResourceType/id"
    ELSE IF ~is_finite(o.value_quantity.value) THEN "Value must be a finite number"
    ELSE IF is_empty(o.value_quantity.unit) THEN "Value unit is required"
    ELSE Ok

\* Mutant: total is left at zero instead of counting the entries.
FhirBundle_from_obs_zero_total(obs) ==
    [resource_type |-> "Bundle", type |-> "collection", total |-> 0,
     entry |-> [i \in 1..Len(obs) |-> [resource |-> obs[i]]]]

\* FhirBundle::from_obs
FhirBundle_from_obs(obs) ==
    [resource_type |-> "Bundle",
     type |-> "collection",
     total |-> Len(obs),
     entry |-> [i \in 1..Len(obs) |-> [resource |-> obs[i]]]]

\* AppError::status_code
status_code(e) ==
    CASE e = "Unauthorized" -> 401
      [] e = "BadRequest" -> 400
      [] e = "Internal" -> 500

(***************************************************************************)
(* Durable store: db.rs, audit.rs                                          *)
(***************************************************************************)

\* The code_str match of Database::insert_reading.
code_str(code) == CASE code = "Sound" -> "sound"

\* The row a successful INSERT INTO sensor_readings adds; RETURNING id is the
\* identifier the table generates for it.
insert_reading(rows, r) ==
    Append(rows, [id |-> Len(rows) + 1,
                  patient_id |-> r.patient_id,
                  device_id |-> r.device_id,
                  code |-> code_str(r.code),
                  value |-> r.value,
                  unit |-> r.unit,
                  timestamp |-> r.ts])

\* WHERE code = $1, present only when a code filter is given.
where_code(rows, code_filter) ==
    SelectSeq(rows, LAMBDA row : ~IsSome(code_filter) \/ row.code = Unwrap(code_filter))

Permutations_of(n) == {f \in [1..n -> 1..n] : \A i, j \in 1..n : f[i] = f[j] => i = j}

\* ORDER BY timestamp DESC: every order of the rows with non-increasing
\* timestamps (rows of equal timestamp come in any order).
order_by_timestamp_desc(rows) ==
    {[i \in 1..Len(rows) |-> rows[f[i]]] : f \in
        {g \in Permutations_of(Len(rows)) :
            \A i \in 1..(Len(rows) - 1) : rows[g[i]].timestamp >= rows[g[i + 1]].timestamp}}

\* The filter_map of get_recent_readings: rows with an unknown code are dropped.
rows_to_readings(rows) ==
    LET known == SelectSeq(rows, LAMBDA row : row.code = "sound")
    IN  [i \in 1..Len(known) |->
            [patient_id |-> known[i].patient_id,
             device_id |-> known[i].device_id,
             code |-> "Sound",
             value |-> known[i].value,
             unit |-> known[i].unit,
             ts |-> known[i].timestamp]]

\* Database::get_recent_readings when the query succeeds: the results it can
\* return (WHERE, ORDER BY, LIMIT, then the conversion back to readings).
get_recent_readings(rows, limit, code_filter) ==
    {rows_to_readings(Take(sorted, limit)) :
        sorted \in order_by_timestamp_desc(where_code(rows, code_filter))}

\* enum AuditAction, as its Display impl writes each variant to the table.
AuditAction ==
    {"CREATE", "READ", "UPDATE", "DELETE", "LOGIN", "LOGOUT", "ACCESS_DENIED"}

\* Mutant: the write replaces the table content instead of adding a row.
AuditLogEntry_log_overwrite(logs, entry) == <<entry>>

\* AuditLogEntry::log: one INSERT INTO audit_logs; logs is the table before.
AuditLogEntry_log(logs, entry) == Append(logs, entry)

\* Mutant: the entry is built without with_resource_id and with_patient_id.
create_audit_entry_anonymous_resource(id, user_claims, r) ==
    [user_id |-> Some(user_claims.sub),
     user_role |-> Some(user_claims.role),
     action |-> "CREATE",
     resource_type |-> "SensorReading",
     resource_id |-> None,
     patient_id |-> None,
     ip_address |-> None,
     user_agent |-> None,
     request_path |-> None,
     status_code |-> Some(200),
     error_message |-> None,
     metadata |-> None]

\* The AuditLogEntry built in AppState::push (new + with_user + with_resource_id
\* + with_patient_id + with_status_code).
create_audit_entry(id, user_claims, r) ==
    [user_id |-> Some(user_claims.sub),
     user_role |-> Some(user_claims.role),
     action |-> "CREATE",
     resource_type |-> "SensorReading",
     resource_id |-> Some(id),
     patient_id |-> Some(r.patient_id),
     ip_address |-> None,
     user_agent |-> None,
     request_path |-> None,
     status_code |-> Some(200),
     error_message |-> None,
     metadata |-> None]

(***************************************************************************)
(* AppState: domain/store.rs                                               *)
(***************************************************************************)

\* Mutant: the claims never reach the audit block.
audit_wanted_never(claims) == FALSE

\* The guard of the audit block of push: `if let Some(user_claims) = claims`.
audit_wanted(claims) == IsSome(claims)

\* The database half of AppState::push.  s is the AppState with the two
\* tables; insert_ok and audit_ok are the outcomes the database gives to
\* insert_reading and to audit_entry.log.  insert_calls and audit_calls list the
\* outcome of every such call made.
push_db(s, r, claims, insert_ok, audit_ok) ==
    IF ~IsSome(s.db)
    THEN [db_rows |-> s.db_rows, audit_logs |-> s.audit_logs,
          insert_calls |-> <<>>, audit_calls |-> <<>>]
    ELSE IF insert_ok
    THEN LET rows == insert_reading(s.db_rows, r)
             id == rows[Len(rows)].id
         IN  IF audit_wanted(claims)
             THEN [db_rows |-> rows,
                   audit_logs |-> IF audit_ok
                                  THEN AuditLogEntry_log(s.audit_logs,
                                           create_audit_entry(id, Unwrap(claims), r))
                                  ELSE s.audit_logs,
                   insert_calls |-> <<"ok">>,
                   audit_calls |-> IF audit_ok THEN <<"ok">> ELSE <<"fail">>]
             ELSE [db_rows |-> rows, audit_logs |-> s.audit_logs,
                   insert_calls |-> <<"ok">>, audit_calls |-> <<>>]
    ELSE [db_rows |-> s.db_rows, audit_logs |-> s.audit_logs,
          insert_calls |-> <<"fail">>, audit_calls |-> <<>>]

\* Mutant: the capacity test is off by one (> for >=).
push_cache_off_by_one(rs, cap, r) ==
    IF Len(rs) > cap THEN Append(Tail(rs), r) ELSE Append(rs, r)

\* Mutant: pop_back for pop_front, the newest entry is evicted.
push_cache_pop_back(rs, cap, r) ==
    IF Len(rs) >= cap THEN Append(SubSeq(rs, 1, Len(rs) - 1), r) ELSE Append(rs, r)

\* The in-memory half of AppState::push: pop_front at capacity, push_back.
push_cache(rs, cap, r) ==
    IF Len(rs) >= cap THEN Append(Tail(rs), r) ELSE Append(rs, r)

\* Mutant: the insert error is propagated (insert_reading(..).await?).
push_result_insert_strict(d) == IF d.insert_calls = <<"fail">> THEN "Internal" ELSE Ok

\* Mutant: the audit error is propagated (audit_entry.log(..).await?).
push_result_audit_strict(d) == IF d.audit_calls = <<"fail">> THEN "Internal" ELSE Ok

\* What push returns once both halves ran.
push_result(d) == Ok

\* AppState::push
push(s, r, claims, insert_ok, audit_ok) ==
    LET d == push_db(s, r, claims, insert_ok, audit_ok)
    IN  [readings |-> push_cache(s.readings, s.max, r),
         max |-> s.max,
         db_rows |-> d.db_rows,
         audit_logs |-> d.audit_logs,
         insert_calls |-> d.insert_calls,
         audit_calls |-> d.audit_calls,
         result |-> push_result(d)]

\* Mutant: the fallback returns the whole cache, whatever the limit.
recent_fallback_unlimited(rs, limit, code_filter) ==
    Reverse(rs)

\* The in-memory fallback of recent_observations: the readings it converts.
recent_fallback(rs, limit, code_filter) ==
    Take(Reverse(rs), Min(limit, Len(rs)))

\* .map(FhirObservation::from_reading).collect(): ids[i] is the identifier
\* drawn for the i-th reading.
map_from_reading(rs, ids) == [i \in 1..Len(rs) |-> from_reading(rs[i], ids[i])]

\* Mutant: the database result is used although no database is configured.
recent_readings_database_only(s, limit, code_filter, query, db_result) == db_result

\* Mutant: a failed query is taken for an empty result, without fallback.
recent_readings_no_fallback(s, limit, code_filter, query, db_result) ==
    IF IsSome(s.db) THEN db_result
    ELSE recent_fallback(s.readings, limit, code_filter)

\* AppState::recent_observations: the readings it converts, given the outcome
\* of the database query ("none" when no database is configured).
recent_readings(s, limit, code_filter, query, db_result) ==
    IF IsSome(s.db) /\ query = "ok" THEN db_result
    ELSE recent_fallback(s.readings, limit, code_filter)

(***************************************************************************)
(* The broadcast channel of the hub: tokio::sync::broadcast as ws.rs and   *)
(* routes.rs use it                                                        *)
(***************************************************************************)

\* broadcast::channel(QueueBound) once the `_rx` of configure is dropped: no
\* value sent yet.  tail counts the values stored; buf holds the newest ones,
\* each with its position.
channel == [tail |-> 0, buf |-> <<>>]

\* Position of the oldest value the channel still holds.
oldest(ch) == ch.tail - Len(ch.buf)

\* Mutant: a full channel keeps its oldest value and grows.
send_unbounded(ch, v, rx_cnt) ==
    IF rx_cnt = 0 THEN ch
    ELSE [tail |-> ch.tail + 1, buf |-> Append(ch.buf, [pos |-> ch.tail, obs |-> v])]

\* Sender::send with rx_cnt receivers alive: with none the value is returned in
\* an Err and nothing is stored; otherwise the value takes the next position,
\* overwriting the oldest one when the channel is full.  It never waits.
send(ch, v, rx_cnt) ==
    IF rx_cnt = 0 THEN ch
    ELSE [tail |-> ch.tail + 1,
          buf |-> Append(IF Len(ch.buf) >= QueueBound THEN Tail(ch.buf) ELSE ch.buf,
                         [pos |-> ch.tail, obs |-> v])]

\* What Sender::send returns with rx_cnt receivers alive: Err(SendError) with
\* none, Ok otherwise.
send_result(rx_cnt) == IF rx_cnt = 0 THEN "SendError" ELSE Ok

\* Mutant: the result of the send is propagated as with `?`.
let_discard_propagating(res) == res

\* `let _ = hub.tx.send(..)`: the result is dropped, the handler goes on.
let_discard(res) == Ok

\* Mutant: a sender waits while a receiver has a full backlog.
send_ready_backpressure(ch, cursors) == \A c \in cursors : ch.tail - c < QueueBound

\* Whether Sender::send returns without waiting, given the receivers' cursors.
send_ready(ch, cursors) == TRUE

\* Sender::subscribe: the cursor of the new receiver.
subscribe(ch) == ch.tail

\* Receiver::resubscribe: a new receiver at the current tail, whatever the
\* cursor rcv of the receiver it is called on.
resubscribe(rcv, ch) == ch.tail

\* Receiver::try_recv at cursor next.
try_recv(ch, next) ==
    IF next < oldest(ch)
    THEN [res |-> "Lagged", next |-> oldest(ch), value |-> None]
    ELSE IF next >= ch.tail
    THEN [res |-> "Empty", next |-> next, value |-> None]
    ELSE [res |-> "Ok", next |-> next + 1,
          value |-> Some(ch.buf[next - oldest(ch) + 1])]

\* The interval closure of WsSession::started: `while let Ok(obs) =
\* rx.try_recv() { ctx.text(..) }`, which ends at the first Empty or Lagged.
RECURSIVE drain(_, _, _)
drain(ch, next, out) ==
    LET r == try_recv(ch, next)
    IN  IF r.res = "Ok" THEN drain(ch, r.next, Append(out, Unwrap(r.value)))
        ELSE [next |-> r.next, texts |-> out, end |-> r.res]

(***************************************************************************)
(* Request tasks and websocket sessions                                    *)
(***************************************************************************)

\* A task slot with no request.
Idle == [op |-> "idle"]

\* No connection yet.
NoSession == [st |-> "none"]

\* Mutant: the observation is sent before the guarded block.
ingest_steps_send_first ==
    <<"send", "lock", "push_db", "pop_front", "push_back", "unlock">>

\* Mutant: the guard lives to the end of the handler.
ingest_steps_unlock_last ==
    <<"lock", "push_db", "pop_front", "push_back", "send", "unlock">>

\* The ingest handlers after validation, in program order: state.lock().await,
\* the database half of push, the two cache statements of push, the end of the
\* block that drops the guard, hub.tx.send.
ingest_steps ==
    <<"lock", "push_db", "pop_front", "push_back", "unlock", "send">>

\* get_observations: state.lock().await, bundle / bundle_by_code, the guard
\* dropped at the end of the handler.
get_observations_steps == <<"lock", "bundle", "unlock">>

\* Mutant: the guard of healthz is never dropped.
healthz_steps_leaked_guard == <<"lock", "health_check", "ml_health_check">>

\* healthz: state.lock().await, st.health_check(), the health check of the ML
\* service when ML_SERVICE_URL is set, and the guard `st` dropped at the end
\* of the handler.
healthz_steps == <<"lock", "health_check", "ml_health_check", "unlock">>

\* The reading of the n-th ingest request.
ServerReading(n) ==
    [patient_id |-> Str_p1, device_id |-> Str_d1, code |-> "Sound",
     value |-> F64(75), unit |-> Str_raw, ts |-> n]

\* `if self.readings.len() >= self.max { self.readings.pop_front(); }`
pop_front_at_capacity(rs, cap) == IF Len(rs) >= cap THEN Tail(rs) ELSE rs

\* Mutant: the reading is appended twice.
push_back_twice(rs, r) == Append(Append(rs, r), r)

\* self.readings.push_back(r)
push_back(rs, r) == Append(rs, r)

\* Mutant: the lock is taken without waiting for its holder.
lock_free_always(l) == TRUE

\* Mutex::lock resolves only when no task holds the guard.
lock_free(l) == l = None

(***************************************************************************)
(* State                                                                   *)
(***************************************************************************)

VARIABLES
    readings,    \* AppState.readings: the bounded cache, oldest first
    max,         \* AppState.max
    db,          \* AppState.db: None, or Some handle to the database
    db_rows,     \* table sensor_readings, in insertion order
    audit_logs,  \* table audit_logs, in insertion order
    appended,    \* history: every reading handed to push, in order
    last_insert, \* history: the insert_reading calls of the latest push
    last_obs,    \* history: the observation the latest successful ingest returned
    hub_sent,    \* history: number of hub.tx.send calls
    call,        \* the request being answered and its response, or NoCall
    lock,        \* the tokio Mutex around AppState: None, or Some(task holding it)
    tasks,       \* per request task: the handler it runs and the step it is at
    begun,       \* history: number of ingest requests that passed validation
    hubs,        \* per worker: the broadcast channel its configure call created
    sessions,    \* per websocket connection: the WsSession actor and its receivers
    published    \* history: the observation of every hub.tx.send call, in order

vars == <<readings, max, db, db_rows, audit_logs, appended, last_insert, last_obs, hub_sent,
          call,
          lock, tasks, begun, hubs, sessions, published>>

\* The state of the concurrent server, untouched by the one-request-at-a-time
\* handlers below.
server_vars == <<lock, tasks, begun, hubs, sessions, published>>

NoCall == [op |-> "none"]

\* unwrap_or(100) and min(500) of get_observations
DefaultLimit == 100
MaxLimit == 500

\* AppState together with the tables its database handle reaches.
State ==
    [readings |-> readings, max |-> max, db |-> db,
     db_rows |-> db_rows, audit_logs |-> audit_logs]

\* AppState::new_demo (db = None) or AppState::with_database (db = Some) on a
\* freshly migrated database.
Init ==
    /\ readings = <<>>
    /\ max = CacheCapacity
    /\ db \in {None, Some("pool")}
    /\ db_rows = <<>>
    /\ audit_logs = <<>>
    /\ appended = <<>>
    /\ last_insert = <<>>
    /\ last_obs = None
    /\ hub_sent = 0
    /\ call = NoCall
    /\ lock = None
    /\ tasks = [t \in Tasks |-> Idle]
    /\ begun = 0
    /\ hubs = [w \in Workers |-> channel]
    /\ sessions = [s \in Sessions |-> NoSession]
    /\ published = <<>>

(***************************************************************************)
(* Handlers: routes.rs                                                     *)
(***************************************************************************)

\* What the Authorization header of a request to the /api scope carries: no
\* bearer token, a token validate_token rejects, a valid token whose claims
\* are expired, or a valid unexpired token.
Credentials == {"missing", "invalid", "expired", "valid"}

\* Mutant: a request without a bearer token passes as an anonymous user.
jwt_validator_admits_missing(credentials) ==
    IF credentials = "valid" THEN Some([sub |-> "test-user", role |-> "user"])
    ELSE IF credentials = "missing" THEN Some([sub |-> "anonymous", role |-> "user"])
    ELSE None

\* HttpAuthentication::bearer(jwt_validator): the claims it attaches to the
\* request, or None when the request is answered 401 (the BearerAuth
\* extractor fails without a token; jwt_validator returns ErrorUnauthorized
\* for an invalid or an expired one).
jwt_validator(credentials) ==
    IF credentials = "valid" THEN Some([sub |-> "test-user", role |-> "user"])
    ELSE None

\* Bodies posted without valid credentials: one reading that would be
\* accepted and two that validation would reject.
RejectedBodies ==
    {r \in Readings : r.device_id = Str_d1 /\ r.unit = Str_raw /\ r.ts = 2
                        /\ (r.patient_id = Str_p1 \/ r.value = F64(75))}

\* The routes of web::scope("/api") that reach AppState.
ApiRoutes == {"ingest", "get_observations"}

\* An early `?` return of an ingest handler with AppError e.
IngestFailed(op, r, claims, e, msg) ==
    /\ call' = [op |-> op, reading |-> r, claims |-> claims,
                status |-> status_code(e), error |-> msg, obs |-> None,
                insert_calls |-> <<>>, audit_calls |-> <<>>, pushed |-> FALSE,
                sent |-> None]
    /\ UNCHANGED <<readings, max, db, db_rows, audit_logs, appended, last_insert, last_obs,
                   hub_sent>>
    /\ UNCHANGED server_vars

\* Mutant: the handler converts the reading a second time for the hub, so the
\* observation sent carries another identifier than the one returned.
IngestStore_republish(op, r, claims, obs) ==
    /\ Len(appended) < MaxIngests
    /\ \E insert_ok \in BOOLEAN, audit_ok \in BOOLEAN :
        LET p == push(State, r, claims, insert_ok, audit_ok)
        IN  /\ readings' = p.readings
            /\ max' = p.max
            /\ db_rows' = p.db_rows
            /\ audit_logs' = p.audit_logs
            /\ appended' = Append(appended, r)
            /\ last_insert' = p.insert_calls
            /\ UNCHANGED <<db, server_vars>>
            /\ IF p.result = Ok
               THEN /\ hub_sent' = hub_sent + 1
                    /\ last_obs' = Some(obs)
                    /\ call' = [op |-> op, reading |-> r, claims |-> claims,
                                status |-> 200, error |-> "", obs |-> Some(obs),
                                insert_calls |-> p.insert_calls,
                                audit_calls |-> p.audit_calls,
                                pushed |-> TRUE,
                                sent |-> Some(from_reading(r, 3 - obs.id))]
               ELSE /\ hub_sent' = hub_sent
                    /\ last_obs' = last_obs
                    /\ call' = [op |-> op, reading |-> r, claims |-> claims,
                                status |-> status_code(p.result), error |-> "internal error",
                                obs |-> None, insert_calls |-> p.insert_calls,
                                audit_calls |-> p.audit_calls,
                                pushed |-> TRUE, sent |-> None]

\* The guarded block, the publish and the response of an ingest handler, for a
\* reading whose observation obs passed both validations.
IngestStore(op, r, claims, obs) ==
    /\ Len(appended) < MaxIngests
    /\ \E insert_ok \in BOOLEAN, audit_ok \in BOOLEAN :
        LET p == push(State, r, claims, insert_ok, audit_ok)
        IN  /\ readings' = p.readings
            /\ max' = p.max
            /\ db_rows' = p.db_rows
            /\ audit_logs' = p.audit_logs
            /\ appended' = Append(appended, r)
            /\ last_insert' = p.insert_calls
            /\ UNCHANGED <<db, server_vars>>
            /\ IF p.result = Ok
               THEN /\ hub_sent' = hub_sent + 1
                    /\ last_obs' = Some(obs)
                    /\ call' = [op |-> op, reading |-> r, claims |-> claims,
                                status |-> 200, error |-> "", obs |-> Some(obs),
                                insert_calls |-> p.insert_calls,
                                audit_calls |-> p.audit_calls,
                                pushed |-> TRUE, sent |-> Some(obs)]
               ELSE /\ hub_sent' = hub_sent
                    /\ last_obs' = last_obs
                    /\ call' = [op |-> op, reading |-> r, claims |-> claims,
                                status |-> status_code(p.result), error |-> "internal error",
                                obs |-> None, insert_calls |-> p.insert_calls,
                                audit_calls |-> p.audit_calls,
                                pushed |-> TRUE, sent |-> None]

\* Mutant: the derived observation is stored and sent without being validated.
IngestHandler_unchecked_observation(op, r, claims) ==
    /\ call = NoCall
    /\ IF SensorReading_validate(r) # Ok
       THEN IngestFailed(op, r, claims, "BadRequest", SensorReading_validate(r))
       ELSE \E id \in Uuids : IngestStore(op, r, claims, from_reading(r, id))

\* The body shared by ingest_public (claims = None) and ingest (claims from
\* the request): validate, convert, validate, store, publish, respond.
IngestHandler(op, r, claims) ==
    /\ call = NoCall
    /\ IF SensorReading_validate(r) # Ok
       THEN IngestFailed(op, r, claims, "BadRequest", SensorReading_validate(r))
       ELSE \E id \in Uuids :
            LET obs == from_reading(r, id)
            IN  IF FhirObservation_validate(obs) # Ok
                THEN IngestFailed(op, r, claims, "BadRequest", FhirObservation_validate(obs))
                ELSE IngestStore(op, r, claims, obs)

\* POST /ingest
ingest_public == \E r \in Readings : IngestHandler("ingest_public", r, None)

\* POST /api/ingest, for a request the middleware let through: the claims
\* get_claims_from_request finds are those jwt_validator attached.
ingest ==
    \E r \in Readings, credentials \in Credentials :
        /\ IsSome(jwt_validator(credentials))
        /\ IngestHandler("ingest", r, jwt_validator(credentials))

\* Mutant: the fallback drains the cache it reads (pop instead of iter).
get_observations_draining ==
    /\ call = NoCall
    /\ \E ids \in [1..Len(readings) -> Uuids] :
        call' = [op |-> "get_observations", limit_in |-> None, code |-> None,
                 claims |-> jwt_validator("valid"), limit |-> DefaultLimit,
                 query |-> IF IsSome(db) THEN "fail" ELSE "none", status |-> 200,
                 audit_calls |-> <<>>,
                 bundle |-> FhirBundle_from_obs(map_from_reading(Reverse(readings), ids))]
    /\ readings' = <<>>
    /\ UNCHANGED <<max, db, db_rows, audit_logs, appended, last_insert, last_obs, hub_sent>>
    /\ UNCHANGED server_vars

\* GET /api/fhir/Observation, for a request that carries claims.  The handler
\* and recent_observations call neither AuditLogEntry::log nor AuditLogger.
get_observations ==
    /\ call = NoCall
    /\ \E lim \in LimitInputs, code \in CodeInputs,
          c \in {jwt_validator(credentials) : credentials \in Credentials} \ {None} :
        LET limit == Min(IF IsSome(lim) THEN Unwrap(lim) ELSE DefaultLimit, MaxLimit)
        IN  \E query \in (IF IsSome(db) THEN {"ok", "fail"} ELSE {"none"}) :
            \E db_result \in (IF query = "ok"
                              THEN get_recent_readings(db_rows, limit, code)
                              ELSE {<<>>}) :
                LET rs == recent_readings(State, limit, code, query, db_result)
                IN  \E ids \in [1..Len(rs) -> Uuids] :
                        call' = [op |-> "get_observations", limit_in |-> lim,
                                 code |-> code, claims |-> c, limit |-> limit,
                                 query |-> query, status |-> 200,
                                 audit_calls |-> <<>>,
                                 bundle |-> FhirBundle_from_obs(map_from_reading(rs, ids))]
    /\ UNCHANGED <<readings, max, db, db_rows, audit_logs, appended, last_insert, last_obs,
                   hub_sent>>
    /\ UNCHANGED server_vars

\* POST /auth/login.  credentials is the outcome of comparing the body with
\* AUTH_USERNAME and AUTH_PASSWORD, token the outcome of generate_token.  The
\* handler touches neither AppState nor the audit table.
login ==
    /\ call = NoCall
    /\ \E credentials \in {"match", "mismatch"}, token \in {"ok", "fail"} :
        call' = [op |-> "login", credentials |-> credentials,
                 status |-> IF credentials = "mismatch" THEN status_code("Unauthorized")
                            ELSE IF token = "fail" THEN status_code("Internal")
                            ELSE 200,
                 audit_calls |-> <<>>]
    /\ UNCHANGED <<readings, max, db, db_rows, audit_logs, appended, last_insert, last_obs,
                   hub_sent>>
    /\ UNCHANGED server_vars

\* The requests to web::scope("/api") that HttpAuthentication::bearer answers
\* itself: 401, before the handler and its extractors (the JSON body among
\* them) run.  body is the reading posted to /api/ingest.
auth_middleware ==
    /\ call = NoCall
    /\ \E route \in ApiRoutes, credentials \in Credentials, r \in RejectedBodies :
        /\ ~IsSome(jwt_validator(credentials))
        /\ call' = [op |-> "auth_middleware", route |-> route,
                    credentials |-> credentials,
                    body |-> IF route = "ingest" THEN Some(r) ELSE None,
                    status |-> status_code("Unauthorized"),
                    audit_calls |-> <<>>]
    /\ UNCHANGED <<readings, max, db, db_rows, audit_logs, appended, last_insert, last_obs,
                   hub_sent>>
    /\ UNCHANGED server_vars

\* Whether configure found ML_SERVICE_URL, and what MlClient::health_check
\* returned if it did.
MlOutcomes == {"not_configured", "ok", "error"}

\* AppState::has_database
has_database(s) == IsSome(s.db)

\* Mutant: a failed database health check is taken for a healthy one.
health_check_lenient(s, db_health) == Ok

\* AppState::health_check: Ok, or the AppError of Database::health_check;
\* db_health is the outcome of its SELECT 1.
health_check(s, db_health) ==
    IF IsSome(s.db) /\ db_health = "fail" THEN "Internal" ELSE Ok

\* GET /healthz: the handler from the lock to the response.  When the health
\* check of AppState fails the `?` returns before the body is built and the
\* ML service is asked.
healthz ==
    /\ call = NoCall
    /\ \E db_health \in (IF IsSome(db) THEN {"ok", "fail"} ELSE {"none"}),
          ml \in MlOutcomes :
        IF health_check(State, db_health) # Ok
        THEN /\ ml = "not_configured"
             /\ call' = [op |-> "healthz", db_health |-> db_health,
                         status |-> status_code(health_check(State, db_health)),
                         body |-> None, audit_calls |-> <<>>]
        ELSE call' = [op |-> "healthz", db_health |-> db_health, status |-> 200,
                      body |-> Some([status |-> "ok",
                                     database |-> IF has_database(State) THEN "connected"
                                                  ELSE "in-memory-only",
                                     authentication |-> "JWT enabled",
                                     ml_service |-> [status |-> ml,
                                                     connected |-> ml = "ok"]]),
                      audit_calls |-> <<>>]
    /\ UNCHANGED <<readings, max, db, db_rows, audit_logs, appended, last_insert, last_obs,
                   hub_sent>>
    /\ UNCHANGED server_vars

\* The response is written to the connection; the worker takes the next request.
Respond ==
    /\ call # NoCall
    /\ call' = NoCall
    /\ UNCHANGED <<readings, max, db, db_rows, audit_logs, appended, last_insert, last_obs,
                   hub_sent>>
    /\ UNCHANGED server_vars

Next ==
    ingest_public \/ ingest \/ get_observations \/ healthz \/ login \/ auth_middleware
        \/ Respond

Spec == Init /\ [][Next]_vars

(***************************************************************************)
(* The concurrent server: request tasks on several workers share the one   *)
(* Arc<Mutex<AppState>> of main; every worker runs configure, which creates *)
(* that worker's channel; websocket sessions subscribe to the channel of   *)
(* the worker that accepted them                                           *)
(***************************************************************************)

\* The variables of the one-request-at-a-time handlers that the tasks leave alone.
call_vars == <<last_insert, last_obs, call>>

StepsOf(op) ==
    CASE op \in {"ingest_public", "ingest"} -> ingest_steps
      [] op = "get_observations" -> get_observations_steps
      [] op = "healthz" -> healthz_steps

\* Task t is about to run the step called name.
At(t, name) ==
    /\ tasks[t].op # "idle"
    /\ StepsOf(tasks[t].op)[tasks[t].i] = name

\* Task t after the step it is at: the next step, or the response.
Advance(t) ==
    IF tasks[t].i = Len(StepsOf(tasks[t].op)) THEN Idle
    ELSE [tasks[t] EXCEPT !.i = @ + 1]

\* The sessions whose receivers are alive on worker w's channel.
LiveOn(w) == {s \in Sessions : sessions[s].st = "live" /\ sessions[s].worker = w}

\* Receivers alive on worker w's channel: self.rx and the rx of the interval
\* closure, per session.
rx_cnt(w) == 2 * Cardinality(LiveOn(w))

\* Their cursors.
cursors(w) == UNION {{sessions[s].self_rx, sessions[s].rx} : s \in LiveOn(w)}

\* An ingest handler on worker w up to the guarded block: both validations
\* pass for the reading.
IngestBegin(t, w, op, claims) ==
    /\ tasks[t] = Idle
    /\ begun < MaxIngests
    /\ LET r == ServerReading(begun + 1)
           obs == from_reading(r, begun + 1)
       IN  /\ SensorReading_validate(r) = Ok
           /\ FhirObservation_validate(obs) = Ok
           /\ tasks' = [tasks EXCEPT ![t] = [op |-> op, i |-> 1, worker |-> w,
                                             reading |-> r, claims |-> claims,
                                             obs |-> obs]]
    /\ begun' = begun + 1
    /\ UNCHANGED <<readings, max, db, db_rows, audit_logs, appended, hub_sent,
                   lock, hubs, sessions, published, call_vars>>

\* POST /ingest accepted by worker w
begin_ingest_public(t, w) == IngestBegin(t, w, "ingest_public", None)

\* POST /api/ingest accepted by worker w, for a request that carries claims
begin_ingest(t, w) == \E c \in ClaimsSet : IngestBegin(t, w, "ingest", Some(c))

\* GET /api/fhir/Observation up to state.lock()
begin_get_observations(t) ==
    /\ tasks[t] = Idle
    /\ tasks' = [tasks EXCEPT ![t] = [op |-> "get_observations", i |-> 1,
                                      mid_push |-> FALSE]]
    /\ UNCHANGED <<readings, max, db, db_rows, audit_logs, appended, hub_sent,
                   lock, begun, hubs, sessions, published, call_vars>>

\* GET /healthz up to state.lock()
begin_healthz(t) ==
    /\ tasks[t] = Idle
    /\ tasks' = [tasks EXCEPT ![t] = [op |-> "healthz", i |-> 1]]
    /\ UNCHANGED <<readings, max, db, db_rows, audit_logs, appended, hub_sent,
                   lock, begun, hubs, sessions, published, call_vars>>

\* state.lock().await resolves for task t.
lock_acquire(t) ==
    /\ At(t, "lock")
    /\ lock_free(lock)
    /\ lock' = Some(t)
    /\ tasks' = [tasks EXCEPT ![t] = Advance(t)]
    /\ UNCHANGED <<readings, max, db, db_rows, audit_logs, appended, hub_sent,
                   begun, hubs, sessions, published, call_vars>>

\* The guard of task t is dropped.
unlock(t) ==
    /\ At(t, "unlock")
    /\ lock' = None
    /\ tasks' = [tasks EXCEPT ![t] = Advance(t)]
    /\ UNCHANGED <<readings, max, db, db_rows, audit_logs, appended, hub_sent,
                   begun, hubs, sessions, published, call_vars>>

\* push, database half: insert_reading and the audit write.
ingest_push_db(t) ==
    /\ At(t, "push_db")
    /\ \E insert_ok \in BOOLEAN, audit_ok \in BOOLEAN :
        LET d == push_db(State, tasks[t].reading, tasks[t].claims, insert_ok, audit_ok)
        IN  /\ db_rows' = d.db_rows
            /\ audit_logs' = d.audit_logs
    /\ tasks' = [tasks EXCEPT ![t] = Advance(t)]
    /\ UNCHANGED <<readings, max, db, appended, hub_sent,
                   lock, begun, hubs, sessions, published, call_vars>>

\* push, cache half: the eviction.
ingest_pop_front(t) ==
    /\ At(t, "pop_front")
    /\ readings' = pop_front_at_capacity(readings, max)
    /\ tasks' = [tasks EXCEPT ![t] = Advance(t)]
    /\ UNCHANGED <<max, db, db_rows, audit_logs, appended, hub_sent,
                   lock, begun, hubs, sessions, published, call_vars>>

\* push, cache half: the append.
ingest_push_back(t) ==
    /\ At(t, "push_back")
    /\ readings' = push_back(readings, tasks[t].reading)
    /\ appended' = Append(appended, tasks[t].reading)
    /\ tasks' = [tasks EXCEPT ![t] = Advance(t)]
    /\ UNCHANGED <<max, db, db_rows, audit_logs, hub_sent,
                   lock, begun, hubs, sessions, published, call_vars>>

\* `let _ = hub.tx.send(obs.clone());` on the channel of the task's worker.
ingest_send(t) ==
    /\ At(t, "send")
    /\ LET w == tasks[t].worker
       IN  /\ send_ready(hubs[w], cursors(w))
           /\ let_discard(send_result(rx_cnt(w))) = Ok
           /\ hubs' = [hubs EXCEPT ![w] = send(@, tasks[t].obs, rx_cnt(w))]
           /\ published' = Append(published, tasks[t].obs)
    /\ hub_sent' = hub_sent + 1
    /\ tasks' = [tasks EXCEPT ![t] = Advance(t)]
    /\ UNCHANGED <<readings, max, db, db_rows, audit_logs, appended,
                   lock, begun, sessions, call_vars>>

\* st.bundle / st.bundle_by_code of get_observations: the task reads the cache
\* (or the database) through the guard; mid_push records whether a push had
\* evicted and not yet appended at that moment.
get_observations_bundle(t) ==
    /\ At(t, "bundle")
    /\ tasks' = [tasks EXCEPT ![t] =
                    [Advance(t) EXCEPT
                        !.mid_push = \E u \in Tasks : u # t /\ At(u, "push_back")]]
    /\ UNCHANGED <<readings, max, db, db_rows, audit_logs, appended, hub_sent,
                   lock, begun, hubs, sessions, published, call_vars>>

\* st.health_check().await? of healthz: on an error the handler returns and
\* drops the guard; without an ML client the body is completed at once.
healthz_health_check(t) ==
    /\ At(t, "health_check")
    /\ \E ml_configured \in BOOLEAN, db_health \in {"ok", "fail"} :
        tasks' = [tasks EXCEPT ![t] =
                    IF health_check(State, db_health) = Ok /\ ml_configured
                    THEN Advance(t)
                    ELSE [tasks[t] EXCEPT !.i = Len(healthz_steps)]]
    /\ UNCHANGED <<readings, max, db, db_rows, audit_logs, appended, hub_sent,
                   lock, begun, hubs, sessions, published, call_vars>>

\* client.health_check().await of healthz: the HTTP request to the ML service
\* returns, with a health report or an error; the guard `st` is still alive.
healthz_ml_health_check(t) ==
    /\ At(t, "ml_health_check")
    /\ tasks' = [tasks EXCEPT ![t] = Advance(t)]
    /\ UNCHANGED <<readings, max, db, db_rows, audit_logs, appended, hub_sent,
                   lock, begun, hubs, sessions, published, call_vars>>

\* GET /ws/live accepted by worker w: ws_live subscribes and starts the
\* actor, whose started() re-subscribes and installs the interval; no await
\* point of the worker lies between the two.
ws_live(s, w) ==
    /\ sessions[s] = NoSession
    /\ LET self_rx == subscribe(hubs[w])
           rx == resubscribe(self_rx, hubs[w])
       IN  sessions' = [sessions EXCEPT ![s] =
                           [st |-> "live", worker |-> w, self_rx |-> self_rx, rx |-> rx,
                            texts |-> <<>>, since |-> Len(published),
                            lagged |-> FALSE]]
    /\ UNCHANGED <<readings, max, db, db_rows, audit_logs, appended, hub_sent,
                   lock, tasks, begun, hubs, published, call_vars>>

\* Mutant: the texts of a run are written ahead of those of earlier runs.
tick_newest_first(s) ==
    /\ sessions[s].st = "live"
    /\ LET d == drain(hubs[sessions[s].worker], sessions[s].rx, <<>>)
       IN  sessions' = [sessions EXCEPT ![s] =
                           [@ EXCEPT !.rx = d.next,
                                     !.texts = d.texts \o @,
                                     !.lagged = @ \/ d.end = "Lagged"]]
    /\ UNCHANGED <<readings, max, db, db_rows, audit_logs, appended, hub_sent,
                   lock, tasks, begun, hubs, published, call_vars>>

\* One run of the 250 ms interval closure of session s.
tick(s) ==
    /\ sessions[s].st = "live"
    /\ LET d == drain(hubs[sessions[s].worker], sessions[s].rx, <<>>)
       IN  sessions' = [sessions EXCEPT ![s] =
                           [@ EXCEPT !.rx = d.next,
                                     !.texts = @ \o d.texts,
                                     !.lagged = @ \/ d.end = "Lagged"]]
    /\ UNCHANGED <<readings, max, db, db_rows, audit_logs, appended, hub_sent,
                   lock, tasks, begun, hubs, published, call_vars>>

\* Mutant: stopping one session stops every session.
ws_close_all(s) ==
    /\ sessions[s].st = "live"
    /\ sessions' = [x \in Sessions |->
                       IF sessions[x].st = "live"
                       THEN [st |-> "closed", worker |-> sessions[x].worker,
                             closed_at |-> hubs[sessions[x].worker].tail]
                       ELSE sessions[x]]
    /\ UNCHANGED <<readings, max, db, db_rows, audit_logs, appended, hub_sent,
                   lock, tasks, begun, hubs, published, call_vars>>

\* StreamHandler::handle of a Close message: ctx.close, ctx.stop; the actor
\* and both its receivers are dropped.  closed_at keeps the channel position
\* at that moment.
ws_close(s) ==
    /\ sessions[s].st = "live"
    /\ sessions' = [sessions EXCEPT ![s] =
                       [st |-> "closed", worker |-> @.worker,
                        closed_at |-> hubs[@.worker].tail]]
    /\ UNCHANGED <<readings, max, db, db_rows, audit_logs, appended, hub_sent,
                   lock, tasks, begun, hubs, published, call_vars>>

\* A whole ingest handler served by worker w while websocket sessions are
\* connected: validate, convert, validate, the guarded push, the send on the
\* worker's channel, the response.
IngestOn(w, claims) ==
    /\ begun < MaxPublished
    /\ LET r == ServerReading(begun + 1)
           obs == from_reading(r, begun + 1)
       IN  /\ SensorReading_validate(r) = Ok
           /\ FhirObservation_validate(obs) = Ok
           /\ \E insert_ok \in BOOLEAN, audit_ok \in BOOLEAN :
                LET p == push(State, r, claims, insert_ok, audit_ok)
                IN  /\ p.result = Ok
                    /\ readings' = p.readings
                    /\ db_rows' = p.db_rows
                    /\ audit_logs' = p.audit_logs
                    /\ appended' = Append(appended, r)
           /\ send_ready(hubs[w], cursors(w))
           /\ let_discard(send_result(rx_cnt(w))) = Ok
           /\ hubs' = [hubs EXCEPT ![w] = send(@, obs, rx_cnt(w))]
           /\ published' = Append(published, obs)
    /\ begun' = begun + 1
    /\ hub_sent' = hub_sent + 1
    /\ UNCHANGED <<max, db, lock, tasks, sessions, call_vars>>

\* POST /ingest served by worker w
ingest_public_on(w) == IngestOn(w, None)

\* POST /api/ingest served by worker w, for a request that carries claims
ingest_on(w) == \E c \in ClaimsSet : IngestOn(w, Some(c))

\* The request tasks and the state lock, step by step, with no websocket
\* connected.
ServerNext ==
    \/ \E t \in Tasks, w \in Workers : begin_ingest_public(t, w) \/ begin_ingest(t, w)
    \/ \E t \in Tasks : begin_get_observations(t) \/ begin_healthz(t)
    \/ \E t \in Tasks : lock_acquire(t) \/ unlock(t)
    \/ \E t \in Tasks : ingest_push_db(t) \/ ingest_pop_front(t) \/ ingest_push_back(t)
    \/ \E t \in Tasks : ingest_send(t)
    \/ \E t \in Tasks : get_observations_bundle(t) \/ healthz_health_check(t)
    \/ \E t \in Tasks : healthz_ml_health_check(t)

ServerSpec == Init /\ [][ServerNext]_vars

\* One step of task t past its wait for the lock: the return of the call the
\* task awaits at its position, or the drop of its guard.  A task is at one
\* position, so at most one of the disjuncts is enabled.
task_poll(t) ==
    \/ unlock(t)
    \/ ingest_push_db(t) \/ ingest_pop_front(t) \/ ingest_push_back(t)
    \/ ingest_send(t)
    \/ get_observations_bundle(t)
    \/ healthz_health_check(t) \/ healthz_ml_health_check(t)

\* Scheduling of the request tasks: the runtime polls every task that can
\* make a step, and every database, audit and ML service call returns (weak
\* fairness of the step of each task); tokio's Mutex queues its waiters in
\* FIFO order, so a task waiting in state.lock().await gets the lock once the
\* holders ahead of it have released it (strong fairness of lock_acquire).
\* Nothing is assumed about the arrival of requests.
ServerFairness ==
    \A t \in Tasks : SF_vars(lock_acquire(t)) /\ WF_vars(task_poll(t))

FairServerSpec == Init /\ [][ServerNext]_vars /\ ServerFairness

\* The hub and its subscribers, with whole ingest handlers as publishers.
HubNext ==
    \/ \E w \in Workers : ingest_public_on(w) \/ ingest_on(w)
    \/ \E s \in Sessions, w \in Workers : ws_live(s, w)
    \/ \E s \in Sessions : tick(s) \/ ws_close(s)

\* The hub is observed on a server started without DATABASE_URL
\* (AppState::new_demo): the channels never read the database.
HubInit == Init /\ db = None

HubSpec == HubInit /\ [][HubNext]_vars

(***************************************************************************)
(* The codec on its own: a JSON body is deserialized, the reading is       *)
(* validated, converted and the observation validated and serialized       *)
(***************************************************************************)

\* JSON bodies: the fields of a reading with any spelling of the code.
Bodies ==
    {[op |-> "body", patient_id |-> r.patient_id, device_id |-> r.device_id,
      code |-> c, value |-> r.value, unit |-> r.unit, ts |-> r.ts] :
        r \in Readings, c \in Spellings}

\* A body waits to be read; nothing else of the server is in use.
CodecInit ==
    /\ call \in Bodies
    /\ readings = <<>>
    /\ max = CacheCapacity
    /\ db = None
    /\ db_rows = <<>>
    /\ audit_logs = <<>>
    /\ appended = <<>>
    /\ last_insert = <<>>
    /\ last_obs = None
    /\ hub_sent = 0
    /\ lock = None
    /\ tasks = [t \in Tasks |-> Idle]
    /\ begun = 0
    /\ hubs = [w \in Workers |-> channel]
    /\ sessions = [s \in Sessions |-> NoSession]
    /\ published = <<>>

codec_vars ==
    <<readings, max, db, db_rows, audit_logs, appended, last_insert, last_obs, hub_sent,
      lock, tasks, begun, hubs, sessions, published>>

\* web::Json<SensorReading>: the derived Deserialize of SensorReading, which
\* fails when the code does.
deserialize ==
    /\ call.op = "body"
    /\ call' = [op |-> "deserialize", body |-> call,
                reading |->
                    IF IsSome(SignalCode_deserialize(call.code))
                    THEN Some([patient_id |-> call.patient_id,
                               device_id |-> call.device_id,
                               code |-> Unwrap(SignalCode_deserialize(call.code)),
                               value |-> call.value, unit |-> call.unit, ts |-> call.ts])
                    ELSE None]
    /\ UNCHANGED codec_vars

\* reading.validate()
validate ==
    /\ call.op = "deserialize" /\ IsSome(call.reading)
    /\ call' = [op |-> "validate", reading |-> Unwrap(call.reading),
                result |-> SensorReading_validate(Unwrap(call.reading))]
    /\ UNCHANGED codec_vars

\* FhirObservation::from_reading(reading) and obs.validate(), applied to any
\* reading, and the JSON the response would carry for the code.
convert ==
    /\ call.op = "validate"
    /\ \E id \in Uuids :
        call' = [op |-> "convert", reading |-> call.reading,
                 reading_result |-> call.result,
                 obs |-> from_reading(call.reading, id),
                 result |-> FhirObservation_validate(from_reading(call.reading, id)),
                 code_json |-> SignalCode_serialize(call.reading.code)]
    /\ UNCHANGED codec_vars

CodecNext == deserialize \/ validate \/ convert

CodecSpec == CodecInit /\ [][CodecNext]_vars

(***************************************************************************)
(* Vocabulary of the properties                                            *)
(***************************************************************************)

IngestOps == {"ingest_public", "ingest"}

IsIngest == call.op \in IngestOps

IsQuery == call.op = "get_observations"

\* s has a character that is not whitespace.
NonBlank(s) == \E i \in 1..Len(s) : s[i] # " "

Finite(v) == v \notin {NaN, PosInf, NegInf}

\* The Reading invariant of the data model.
WellFormed(r) == NonBlank(r.patient_id) /\ NonBlank(r.device_id) /\ Finite(r.value)

\* Observation o is the canonical form of reading r.
ShowsReading(o, r) ==
    /\ o.resource_type = "Observation"
    /\ o.subject.reference = Str_Patient \o r.patient_id
    /\ o.effective_date_time = r.ts
    /\ o.value_quantity.value = r.value
    /\ o.value_quantity.unit = r.unit

\* The entries of bundle b are the canonical forms of the readings rs, in order.
ShowsAll(b, rs) ==
    /\ Len(b.entry) = Len(rs)
    /\ \A i \in 1..Len(rs) : ShowsReading(b.entry[i].resource, rs[i])

\* The last n elements of s, newest first.
NewestFirst(s, n) == [i \in 1..Min(n, Len(s)) |-> s[Len(s) + 1 - i]]

(***************************************************************************)
(* C1                                                                      *)
(***************************************************************************)

\* C1 as stated: every ingest of a reading with non-blank subject id, non-blank
\* device id and finite value, whatever its unit, succeeds and returns an
\* observation whose subject reference is "Patient/" + subject id and whose
\* value is the input value.
C1_AnyUnitSucceeds ==
    (IsIngest /\ WellFormed(call.reading)) =>
        /\ call.status = 200
        /\ IsSome(call.obs)
        /\ Unwrap(call.obs).subject.reference = Str_Patient \o call.reading.patient_id
        /\ Unwrap(call.obs).value_quantity.value = call.reading.value

\* C1 amended: every ingest of a reading with non-blank subject id, non-blank
\* device id, finite value and non-empty unit succeeds (with or without claims,
\* database absent, working or failing) and returns an observation whose
\* subject reference is "Patient/" + subject id and whose value is the input
\* value.
C1_WellFormedWithUnitSucceeds ==
    (IsIngest /\ WellFormed(call.reading) /\ call.reading.unit # <<>>) =>
        /\ call.status = 200
        /\ IsSome(call.obs)
        /\ Unwrap(call.obs).subject.reference = Str_Patient \o call.reading.patient_id
        /\ Unwrap(call.obs).value_quantity.value = call.reading.value

\* C1 witness: a public ingest answered 200 while the database insert failed.
C1_Witness ==
    /\ call.op = "ingest_public"
    /\ WellFormed(call.reading)
    /\ call.status = 200
    /\ call.insert_calls = <<"fail">>
    /\ Unwrap(call.obs).value_quantity.value = F64(75)

(***************************************************************************)
(* C2                                                                      *)
(***************************************************************************)

\* C2: an ingest step for a reading whose subject id or device id is blank or
\* whose value is NaN or infinite answers 400 and changes nothing: no cache
\* append, no insert or audit call, no row written, nothing sent to the hub.
C2_InvalidRejectedUnchanged ==
    [][(call = NoCall /\ call'.op \in IngestOps /\ ~WellFormed(call'.reading)) =>
            /\ call'.status = 400
            /\ call'.obs = None
            /\ call'.insert_calls = <<>>
            /\ call'.audit_calls = <<>>
            /\ ~call'.pushed
            /\ call'.sent = None
            /\ UNCHANGED <<readings, max, db, db_rows, audit_logs, appended,
                           last_insert, hub_sent>>]_vars

\* C2 witness: an authenticated ingest with a blank subject id was answered 400
\* while the cache and the database hold earlier readings.
C2_Witness ==
    /\ call.op = "ingest"
    /\ call.reading.patient_id = Str_blank
    /\ call.status = 400
    /\ call.error = "patient_id required"
    /\ Len(readings) = max
    /\ db_rows # <<>>

(***************************************************************************)
(* C3                                                                      *)
(***************************************************************************)

\* C3: the cache never holds more than its capacity, and the capacity is the
\* one given at construction.
C3_CacheBounded == Len(readings) <= max /\ max = CacheCapacity

\* C3 witness: more readings than the capacity were accepted and the cache is
\* full.
C3_Witness == Len(appended) > max /\ Len(readings) = max

(***************************************************************************)
(* C4                                                                      *)
(***************************************************************************)

\* C4: the cache is the last min(capacity, appended) readings handed to push,
\* in order; read with n = capacity it yields them newest first; a query served
\* from the cache with a limit of at least the capacity shows exactly them.
C4_CacheFIFO ==
    /\ readings = Reverse(NewestFirst(appended, max))
    /\ recent_fallback(readings, max, None) = NewestFirst(appended, max)
    /\ (IsQuery /\ call.query # "ok" /\ call.limit >= max) =>
            ShowsAll(call.bundle, NewestFirst(appended, max))

\* C4 witness: capacity + 1 readings were appended, the oldest differs from the
\* newest and is gone, and a query served from the cache returned capacity
\* entries.
C4_Witness ==
    /\ Len(appended) = max + 1
    /\ appended[1] # appended[Len(appended)]
    /\ \A i \in 1..Len(readings) : readings[i] # appended[1]
    /\ IsQuery /\ call.query # "ok" /\ call.limit >= max
    /\ call.bundle.total = max

(***************************************************************************)
(* C5                                                                      *)
(***************************************************************************)

\* C5: whenever push ran, it returned Ok and the ingest answered 200 with the
\* reading as the newest cache entry, whether no insert was made (no
\* database), the insert succeeded or the insert failed; and push runs for
\* every reading that passes both validations.
C5_StorageNeverFailsIngest ==
    IsIngest =>
        /\ (WellFormed(call.reading) /\ call.reading.unit # <<>>) => call.pushed
        /\ call.pushed =>
            /\ call.status = 200
            /\ call.insert_calls \in {<<>>, <<"ok">>, <<"fail">>}
            /\ (call.insert_calls = <<>>) <=> (db = None)
            /\ readings # <<>>
            /\ readings[Len(readings)] = call.reading

\* C5 witness: an authenticated ingest whose insert failed was answered 200 and
\* its reading is the newest cache entry, with nothing in the database.
C5_Witness ==
    /\ call.op = "ingest"
    /\ call.insert_calls = <<"fail">>
    /\ call.status = 200
    /\ readings[Len(readings)] = call.reading
    /\ db_rows = <<>>

(***************************************************************************)
(* C6                                                                      *)
(***************************************************************************)

\* C6: a query whose database query failed is answered 200 from the cache with
\* the min(limit, cache length) most recently appended readings, newest first;
\* when the latest push's insert had failed too and limit >= 1, its first
\* entry is that just-ingested reading.
C6_FallbackOnQueryFailure ==
    (IsQuery /\ call.query = "fail") =>
        /\ call.status = 200
        /\ call.bundle.total = Min(call.limit, Len(readings))
        /\ ShowsAll(call.bundle, NewestFirst(appended, Min(call.limit, Len(readings))))
        /\ (last_insert = <<"fail">> /\ call.limit >= 1) =>
                /\ call.bundle.total >= 1
                /\ ShowsReading(call.bundle.entry[1].resource, appended[Len(appended)])

\* C6 witness: the latest insert failed, the query failed, and the answer lists
\* two cached readings with the just-ingested one first.
C6_Witness ==
    /\ IsQuery /\ call.query = "fail" /\ call.status = 200
    /\ last_insert = <<"fail">>
    /\ call.bundle.total = 2
    /\ appended[Len(appended)] # appended[Len(appended) - 1]
    /\ ShowsReading(call.bundle.entry[1].resource, appended[Len(appended)])

(***************************************************************************)
(* C7                                                                      *)
(***************************************************************************)

\* The rows the database would hold had it stored exactly the readings rs.
RECURSIVE rows_of(_)
rows_of(rs) ==
    IF rs = <<>> THEN <<>> ELSE insert_reading(rows_of(SubSeq(rs, 1, Len(rs) - 1)), rs[Len(rs)])

\* C7 as stated: a query answered from the cache after a failed database query
\* lists only readings whose code equals the code filter, and lists what the
\* database query would return over the cached readings for the same limit
\* and filter.
C7_FallbackSameAsDurable ==
    (IsQuery /\ call.query = "fail") =>
        /\ IsSome(call.code) =>
                \A i \in 1..Len(call.bundle.entry) :
                    call.bundle.entry[i].resource.code.coding[1].code = Unwrap(call.code)
        /\ \E res \in get_recent_readings(rows_of(readings), call.limit, call.code) :
                ShowsAll(call.bundle, res)

(***************************************************************************)
(* C8                                                                      *)
(***************************************************************************)

\* C8 as stated: a query without a code filter, or filtering on "sound", whose
\* limit covers every reading accepted so far, lists an observation for each
\* of the last capacity accepted readings, whatever the outcomes of their
\* inserts and of the database query.
C8_AcceptedVisible ==
    (IsQuery /\ call.status = 200 /\ call.code # Some("heart_rate")
        /\ call.limit >= Len(appended)) =>
        \A k \in 1..Min(max, Len(appended)) :
            \E i \in 1..Len(call.bundle.entry) :
                ShowsReading(call.bundle.entry[i].resource, appended[Len(appended) + 1 - k])

(***************************************************************************)
(* C9                                                                      *)
(***************************************************************************)

\* C9: an ingest whose audit write failed made that write once, after a
\* successful insert whose row is still the last row of the table, wrote no
\* audit row, and answered 200 with the reading appended to the cache and
\* its observation sent to the hub.
C9_AuditNonBlocking ==
    (IsIngest /\ call.audit_calls # <<>> /\ call.audit_calls[1] = "fail") =>
        /\ call.status = 200
        /\ call.audit_calls = <<"fail">>
        /\ call.insert_calls = <<"ok">>
        /\ db_rows # <<>>
        /\ rows_to_readings(<<db_rows[Len(db_rows)]>>) = <<call.reading>>
        /\ Len(audit_logs) < Len(db_rows)
        /\ call.pushed
        /\ readings[Len(readings)] = call.reading
        /\ IsSome(call.obs)
        /\ call.sent = call.obs
        /\ hub_sent = Len(appended)

\* C9 witness: an authenticated ingest answered 200 after its audit write
\* failed, with the row inserted and no audit row.
C9_Witness ==
    /\ call.op = "ingest"
    /\ call.audit_calls = <<"fail">>
    /\ call.status = 200
    /\ Len(db_rows) = 1
    /\ audit_logs = <<>>
    /\ readings = <<call.reading>>

(***************************************************************************)
(* C10                                                                     *)
(***************************************************************************)

\* C10: an ingest makes an audit write exactly when a database is configured,
\* its insert succeeded and the request carried claims; it makes at most one;
\* and a rejected reading, a failed insert and a public ingest make none.
C10_AuditIffInsertedWithClaims ==
    IsIngest =>
        /\ (call.audit_calls # <<>>) <=>
                (IsSome(db) /\ call.insert_calls = <<"ok">> /\ IsSome(call.claims))
        /\ Len(call.audit_calls) <= 1
        /\ Len(audit_logs) <= Len(db_rows)
        /\ (call.status # 200 \/ call.insert_calls = <<"fail">> \/ call.op = "ingest_public")
                => call.audit_calls = <<>>

\* C10 witness: an authenticated ingest with a successful insert wrote the
\* audit row of the inserted reading.
C10_Witness ==
    /\ call.op = "ingest"
    /\ call.insert_calls = <<"ok">>
    /\ call.audit_calls = <<"ok">>
    /\ audit_logs # <<>>
    /\ audit_logs[Len(audit_logs)].resource_id = Some(db_rows[Len(db_rows)].id)
    /\ audit_logs[Len(audit_logs)].patient_id = Some(call.reading.patient_id)

(***************************************************************************)
(* C11                                                                     *)
(***************************************************************************)

\* The call is a successful create, read or login.
IsAuditedKind ==
    \/ IsIngest /\ call.status = 200
    \/ IsQuery /\ call.status = 200
    \/ call.op = "login" /\ call.status = 200

\* C11 as stated: every successful observation query, every successful login
\* and every create makes an audit write attempt (whether or not the write
\* succeeds).
C11_AuditAttemptOnEveryAccess ==
    IsAuditedKind => call.audit_calls # <<>>

(***************************************************************************)
(* C12                                                                     *)
(***************************************************************************)

\* s is a prefix of t.
IsPrefix(s, t) == Len(s) <= Len(t) /\ SubSeq(t, 1, Len(s)) = s

\* C12: the audit table only grows, every step leaves the rows already written
\* in place and unchanged, and every row's action kind is one of create, read,
\* update, delete, login, logout, access-denied.
C12_AuditAppendOnly ==
    [][/\ IsPrefix(audit_logs, audit_logs')
       /\ \A i \in 1..Len(audit_logs') : audit_logs'[i].action \in AuditAction]_vars

\* Two audit rows were written, the second by the ingest just answered.
C12_Witness ==
    /\ Len(audit_logs) >= 2
    /\ IsIngest
    /\ call.audit_calls = <<"ok">>

(***************************************************************************)
(* Vocabulary of the hub properties                                        *)
(***************************************************************************)

Live(s) == sessions[s].st = "live"

\* The channel session s subscribed to.
HubOf(s) == hubs[sessions[s].worker]

\* The observations session s has written to its websocket.
Received(s) == {sessions[s].texts[k].obs : k \in 1..Len(sessions[s].texts)}

\* The channel positions of those observations, in the order written.
Positions(s) == [k \in 1..Len(sessions[s].texts) |-> sessions[s].texts[k].pos]

\* With channels hs, observation o waits in the channel of session record ss,
\* at or after the cursor of its interval closure.
Queued(hs, ss, o) ==
    \E k \in 1..Len(hs[ss.worker].buf) :
        /\ hs[ss.worker].buf[k].obs = o
        /\ hs[ss.worker].buf[k].pos >= ss.rx

\* The step is a hub.tx.send call.
IsPublish == published' # published

\* The observation it sends.
Sent == published'[Len(published')]

(***************************************************************************)
(* C13                                                                     *)
(***************************************************************************)

\* C13 as stated: whenever a subscription that never fell more than the queue
\* bound behind has drained its queue, it has received every observation
\* published since its hub.tx.subscribe() call, and none published before.
C13_ReceivesAllSinceSubscribe ==
    [][\A s \in Sessions :
        tick(s) /\ ~sessions'[s].lagged =>
            /\ \A i \in (sessions[s].since + 1)..Len(published) :
                    published[i] \in Received(s)'
            /\ \A i \in 1..sessions[s].since : published[i] \notin Received(s)']_vars

(***************************************************************************)
(* C14                                                                     *)
(***************************************************************************)

\* C14 as stated: an observation sent by an ingest handler on any worker is
\* queued for every live subscriber, whichever worker accepted it.
C14_SingleHub ==
    [][IsPublish => \A s \in Sessions : Live(s) => Queued(hubs', sessions'[s], Sent)]_vars

(***************************************************************************)
(* C15                                                                     *)
(***************************************************************************)

Max(a, b) == IF a >= b THEN a ELSE b

\* Session s never found itself lagged.
KeptUp(s) == Live(s) /\ ~sessions[s].lagged

\* Session s has received, in order and without gap, everything sent on its
\* channel from its creation up to its cursor.
ReceivedAllUpToCursor(s) ==
    Positions(s) = [k \in 1..(sessions[s].rx - sessions[s].self_rx) |->
                        sessions[s].self_rx + k - 1]

\* C15: an ingest on any worker can always run to completion, whatever the
\* receivers' backlogs (the never-read self.rx of every session included), and a
\* subscriber that keeps up has received everything sent on its channel up to
\* its cursor whatever the other receivers of that channel did.
C15_FanOutIsolation ==
    /\ begun < MaxPublished => \A w \in Workers : ENABLED ingest_public_on(w)
    /\ \A s \in Sessions : KeptUp(s) => ReceivedAllUpToCursor(s)

\* All ingests completed on one worker; one of its subscribers never drained
\* and is overrun, the other received every observation.
C15_Witness ==
    \E s, n \in Sessions :
        /\ s # n /\ Live(s) /\ Live(n)
        /\ sessions[s].worker = sessions[n].worker
        /\ sessions[n].texts = <<>>
        /\ sessions[n].rx < oldest(HubOf(n))
        /\ sessions[s].self_rx < oldest(HubOf(s))
        /\ KeptUp(s)
        /\ Len(sessions[s].texts) = MaxPublished
        /\ begun = MaxPublished

(***************************************************************************)
(* C16                                                                     *)
(***************************************************************************)

\* What session s can still be given: from its cursor, or from the oldest
\* retained value when the cursor is overrun.
Backlog(s) == HubOf(s).tail - Max(sessions[s].rx, oldest(HubOf(s)))

\* C16: no channel holds more than QueueBound values, so no backlog exceeds
\* it; a subscriber's deliveries follow publication order; and once a
\* subscriber has caught up, it has delivered every value its channel retained
\* since its creation, so that only values older than the retained ones were lost.
C16_BoundedDropOldest ==
    /\ \A w \in Workers : Len(hubs[w].buf) <= QueueBound
    /\ \A s \in Sessions : Live(s) =>
        /\ Backlog(s) <= QueueBound
        /\ \A j, k \in 1..Len(sessions[s].texts) :
                j < k => sessions[s].texts[j].pos < sessions[s].texts[k].pos
        /\ sessions[s].rx = HubOf(s).tail =>
                \A p \in Max(sessions[s].self_rx, oldest(HubOf(s)))..(HubOf(s).tail - 1) :
                    \E k \in 1..Len(sessions[s].texts) : sessions[s].texts[k].pos = p

\* QueueBound + 1 observations were sent between two drains of a subscriber: it
\* found itself lagged, lost the oldest and delivered the QueueBound newest.
C16_Witness ==
    \E s \in Sessions :
        /\ Live(s)
        /\ sessions[s].lagged
        /\ sessions[s].self_rx = 0
        /\ HubOf(s).tail = QueueBound + 1
        /\ Positions(s) = [k \in 1..QueueBound |-> k]

(***************************************************************************)
(* C17                                                                     *)
(***************************************************************************)

Closed(s) == sessions[s].st = "closed"

IsIngestTask(t) == tasks[t].op \in IngestOps

\* Task t is inside its guarded section: it has run "lock" and not yet "unlock".
InGuard(t) ==
    /\ tasks[t].op # "idle"
    /\ \E j \in 1..(tasks[t].i - 1) : StepsOf(tasks[t].op)[j] = "lock"
    /\ \A j \in 1..(tasks[t].i - 1) : StepsOf(tasks[t].op)[j] # "unlock"

(***************************************************************************)
(* C18                                                                     *)
(***************************************************************************)

\* C18: a task about to send to the hub does not hold the state lock, and an
\* ingest task holds it only from the durable write to the end of the block
\* after the cache append.
C18_NoLockWhilePublishing ==
    \A t \in Tasks :
        /\ At(t, "send") => lock # Some(t) /\ ~InGuard(t)
        /\ IsIngestTask(t) /\ (lock = Some(t) \/ InGuard(t)) =>
                \/ At(t, "push_db") \/ At(t, "pop_front")
                \/ At(t, "push_back") \/ At(t, "unlock")

\* An authenticated ingest, its row and audit entry written, is about to send
\* while another task holds the lock.
C18_Witness ==
    \E t, u \in Tasks :
        /\ t # u
        /\ At(t, "send") /\ tasks[t].op = "ingest"
        /\ lock = Some(u)
        /\ Len(db_rows) > 0 /\ Len(audit_logs) > 0

(***************************************************************************)
(* C19                                                                     *)
(***************************************************************************)

\* C19: every observation sent to the hub is the canonical form of a reading
\* already appended to the cache, as is the reading of every task about to
\* send; and outside a push the cache holds the newest appended readings.
C19_PublishAfterAppend ==
    /\ \A i \in 1..Len(published) :
            \E j \in 1..Len(appended) : ShowsReading(published[i], appended[j])
    /\ \A t \in Tasks :
            At(t, "send") => \E j \in 1..Len(appended) : appended[j] = tasks[t].reading
    /\ (\A t \in Tasks : ~At(t, "push_back")) =>
            readings = SubSeq(appended, Len(appended) - Min(max, Len(appended)) + 1,
                              Len(appended))

\* Two ingests overlap: one is about to send its observation while the other
\* is inside its guarded section, after an earlier send.
C19_Witness ==
    \E t, u \in Tasks :
        /\ t # u
        /\ At(t, "send")
        /\ IsIngestTask(u) /\ InGuard(u)
        /\ Len(published) >= 1

(***************************************************************************)
(* C20                                                                     *)
(***************************************************************************)

\* C20: at most one task (ingest, query or health check) is inside its guarded
\* section, that task is the holder of the lock, and no query has read the
\* cache while a push had evicted and not yet appended.
C20_Serialized ==
    /\ Cardinality({t \in Tasks : InGuard(t)}) <= 1
    /\ \A t \in Tasks : InGuard(t) => lock = Some(t)
    /\ \A t \in Tasks : tasks[t].op = "get_observations" => ~tasks[t].mid_push

\* A query has read the full cache and still holds the guard, while an ingest
\* that will evict waits for the lock.
C20_Witness ==
    \E t, u \in Tasks :
        /\ tasks[t].op = "get_observations" /\ At(t, "unlock")
        /\ IsIngestTask(u) /\ At(u, "lock")
        /\ Len(readings) = max

(***************************************************************************)
(* C21                                                                     *)
(***************************************************************************)

\* C21: a query's effective limit is min(requested, 500), or 100 when none is
\* requested; the collection it returns has no more entries than the effective
\* limit, and is empty when the requested limit is 0.
C21_LimitClamped ==
    IsQuery =>
        /\ call.limit = (IF IsSome(call.limit_in)
                         THEN Min(Unwrap(call.limit_in), MaxLimit)
                         ELSE DefaultLimit)
        /\ call.limit <= MaxLimit
        /\ Len(call.bundle.entry) <= call.limit
        /\ call.limit_in = Some(0) => call.bundle.entry = <<>>

\* A query with limit 1 over two stored readings returned one entry.
C21_Witness ==
    /\ IsQuery /\ call.limit_in = Some(1)
    /\ Len(readings) = 2
    /\ IsSome(db) => Len(db_rows) = 2
    /\ call.bundle.total = 1

(***************************************************************************)
(* C22                                                                     *)
(***************************************************************************)

\* The readings of s are pairwise distinct.
Distinct(s) == \A i, j \in 1..Len(s) : s[i] = s[j] => i = j

\* Every insert of the readings ingested so far succeeded, or no database is
\* configured.
NoInsertFailed == IsSome(db) => Len(db_rows) = Len(appended)

\* C22 as stated: after m distinct readings were ingested in sequence with no
\* database failure, a query with limit n <= m (n within the cache capacity)
\* returns total = n and lists the n most recently ingested readings, newest
\* first, whether the database or the cache answers and whatever timestamps
\* the readings carry.
C22_LimitReturnsNewestIngested ==
    (IsQuery /\ call.query # "fail" /\ call.code = None /\ NoInsertFailed
        /\ Distinct(appended)
        /\ call.limit <= Len(appended) /\ call.limit <= max) =>
        /\ call.bundle.total = call.limit
        /\ ShowsAll(call.bundle, NewestFirst(appended, call.limit))

(***************************************************************************)
(* C23                                                                     *)
(***************************************************************************)

\* C23 as stated: after one reading was ingested (its insert did not fail), a
\* query with a limit of at least 1 returns total = 1 and its sole entry is
\* the observation the ingest returned, with the same identifier, in every
\* such query.
C23_SameObservationOnQuery ==
    (IsQuery /\ Len(appended) = 1 /\ IsSome(last_obs) /\ NoInsertFailed
        /\ call.code = None /\ call.limit >= 1) =>
        /\ call.bundle.total = 1
        /\ ShowsReading(call.bundle.entry[1].resource, appended[1])
        /\ call.bundle.entry[1].resource.id = Unwrap(last_obs).id

(***************************************************************************)
(* C24                                                                     *)
(***************************************************************************)

\* C24: every collection a query returns is tagged Bundle / collection and its
\* total is the number of entries in its list, whether the database or the
\* cache answered.
C24_BundleShape ==
    IsQuery =>
        /\ call.bundle.resource_type = "Bundle"
        /\ call.bundle.type = "collection"
        /\ call.bundle.total = Len(call.bundle.entry)
        /\ \A i \in 1..Len(call.bundle.entry) :
                call.bundle.entry[i].resource.resource_type = "Observation"

\* The database answered a query with two rows.
C24_Witness ==
    /\ IsQuery /\ call.query = "ok"
    /\ Len(call.bundle.entry) = 2
    /\ call.bundle.total = 2

(***************************************************************************)
(* C25                                                                     *)
(***************************************************************************)

\* The observation derived from r fails FhirObservation::validate although r
\* passed SensorReading::validate.
DerivedObservationInvalid(r) ==
    /\ SensorReading_validate(r) = Ok
    /\ \A id \in Uuids : FhirObservation_validate(from_reading(r, id)) # Ok

\* C25 as stated: an ingest whose reading passed validation but whose derived
\* observation failed it answers with the generic internal failure (500,
\* "internal error", no validation detail), and nothing is written or
\* published.
C25_InvalidObservationIsServerFault ==
    (IsIngest /\ DerivedObservationInvalid(call.reading)) =>
        /\ call.status = status_code("Internal")
        /\ call.error = "internal error"
        /\ ~call.pushed
        /\ call.sent = None

(***************************************************************************)
(* C26                                                                     *)
(***************************************************************************)

\* Reading r passes SensorReading::validate and the observation derived from
\* it passes FhirObservation::validate.
PassesBoth(r) ==
    /\ SensorReading_validate(r) = Ok
    /\ \A id \in Uuids : FhirObservation_validate(from_reading(r, id)) = Ok

\* C26: every reading handed to push passed both validations, every reading
\* in the cache and every row of sensor_readings is one of the readings handed
\* to push, and the observation an ingest sent to the hub is the validated
\* observation of the validated reading of that same ingest.
C26_OnlyValidatedStoredOrSent ==
    /\ \A i \in 1..Len(appended) : PassesBoth(appended[i])
    /\ \A i \in 1..Len(readings) : \E j \in 1..Len(appended) : readings[i] = appended[j]
    /\ Len(rows_to_readings(db_rows)) = Len(db_rows)
    /\ \A i \in 1..Len(db_rows) :
            \E j \in 1..Len(appended) : rows_to_readings(db_rows)[i] = appended[j]
    /\ (IsIngest /\ (call.pushed \/ IsSome(call.sent))) =>
            /\ SensorReading_validate(call.reading) = Ok
            /\ IsSome(call.obs)
            /\ FhirObservation_validate(Unwrap(call.obs)) = Ok
            /\ ShowsReading(Unwrap(call.obs), call.reading)
            /\ call.sent = call.obs
    /\ IsSome(last_obs) => FhirObservation_validate(Unwrap(last_obs)) = Ok

\* An ingest inserted its reading, cached it and sent its observation, after
\* an earlier ingest had done the same.
C26_Witness ==
    /\ IsIngest /\ call.status = 200 /\ IsSome(call.sent)
    /\ call.insert_calls = <<"ok">>
    /\ Len(db_rows) = 2
    /\ Len(readings) = 2
    /\ hub_sent = 2

(***************************************************************************)
(* C27                                                                     *)
(***************************************************************************)

\* C27: a request to /api/ingest without an authenticated caller identity is
\* answered 401 whatever its body (valid or not), in a step that leaves the
\* cache, the tables of readings and of audit rows and the hub unchanged; and
\* the protected ingest handler only ever runs with the claims of an
\* authenticated caller.
C27_UnauthorizedRejected ==
    [][/\ (call'.op = "auth_middleware" /\ call'.route = "ingest") =>
            /\ call'.credentials # "valid"
            /\ call'.status = 401
            /\ UNCHANGED <<readings, max, db, db_rows, audit_logs, appended, hub_sent,
                           hubs, published>>
       /\ call'.op = "ingest" =>
            /\ IsSome(call'.claims)
            /\ Unwrap(call'.claims) \in ClaimsSet]_vars

\* A request without a token, carrying a reading that would have been
\* accepted, was answered 401 while the store held an earlier reading.
C27_Witness ==
    /\ call.op = "auth_middleware" /\ call.route = "ingest"
    /\ call.credentials = "missing"
    /\ call.status = 401
    /\ PassesBoth(Unwrap(call.body))
    /\ Len(readings) = 1
    /\ hub_sent = 1

(***************************************************************************)
(* C28                                                                     *)
(***************************************************************************)

\* C28: reading a body succeeds exactly when its code is spelled sound,
\* SoundLevel, sound_level, SOUND_LEVEL or Sound, and then yields the one
\* variant, which is written back as "sound"; reading what was written yields
\* the same variant again; any other spelling is an error, not a default.
C28_SignalCodeSpellings ==
    call.op = "deserialize" =>
        LET accepted == {"sound", "SoundLevel", "sound_level", "SOUND_LEVEL", "Sound"}
        IN  /\ IsSome(call.reading) <=> call.body.code \in accepted
            /\ IsSome(call.reading) =>
                /\ Unwrap(call.reading).code = "Sound"
                /\ SignalCode_serialize(Unwrap(call.reading).code) = "sound"
                /\ SignalCode_deserialize(SignalCode_serialize(Unwrap(call.reading).code))
                        = Some(Unwrap(call.reading).code)
                /\ code_str(Unwrap(call.reading).code) = "sound"

\* A body spelled with an alias was read as the variant Sound.
C28_Witness ==
    /\ call.op = "deserialize"
    /\ call.body.code = "SOUND_LEVEL"
    /\ IsSome(call.reading)
    /\ Unwrap(call.reading).code = "Sound"

(***************************************************************************)
(* C29                                                                     *)
(***************************************************************************)

\* C29: SensorReading::validate answers "patient_id required" when the
\* patient id is blank, else "device_id required" when the device id is
\* blank, else "value must be finite" when the value is NaN or infinite, else
\* Ok; whatever the unit and the timestamp are.
C29_ValidateReadingOrder ==
    call.op = "validate" =>
        LET r == call.reading
        IN  /\ call.result =
                    (IF ~NonBlank(r.patient_id) THEN "patient_id required"
                     ELSE IF ~NonBlank(r.device_id) THEN "device_id required"
                     ELSE IF ~Finite(r.value) THEN "value must be finite"
                     ELSE Ok)
            /\ \A u \in Units, t \in {1, 2} :
                    SensorReading_validate([r EXCEPT !.unit = u, !.ts = t]) = call.result

\* A reading with a blank patient id, an empty device id and a NaN value is
\* rejected for its patient id.
C29_Witness ==
    /\ call.op = "validate"
    /\ call.reading.patient_id = Str_blank
    /\ call.reading.device_id = Str_empty
    /\ call.reading.value = NaN
    /\ call.reading.unit = Str_empty
    /\ call.result = "patient_id required"

(***************************************************************************)
(* C30                                                                     *)
(***************************************************************************)

\* C30: from_reading, applied to any reading (valid or not), changes nothing
\* of the server and yields an Observation of status final with exactly one
\* coding (system http://loinc.org, code sound), the subject reference
\* "Patient/" + patient id, the reading's timestamp, value and unit; and
\* FhirObservation::validate accepts it whenever the reading passed
\* SensorReading::validate and its unit is not empty.
C30_ConvertTotal ==
    [][call'.op = "convert" =>
        LET r == call'.reading
            o == call'.obs
        IN  /\ UNCHANGED codec_vars
            /\ o.resource_type = "Observation"
            /\ o.status = "final"
            /\ Len(o.code.coding) = 1
            /\ o.code.coding[1].system = Str_loinc
            /\ o.code.coding[1].code = "sound"
            /\ o.subject.reference = Str_Patient \o r.patient_id
            /\ o.effective_date_time = r.ts
            /\ o.value_quantity = [value |-> r.value, unit |-> r.unit]
            /\ (call'.reading_result = Ok /\ r.unit # Str_empty) => call'.result = Ok]_vars

\* A valid reading with a unit was converted and its observation accepted.
C30_Witness ==
    /\ call.op = "convert"
    /\ call.reading_result = Ok
    /\ call.reading.unit = Str_raw
    /\ call.obs.value_quantity.unit = Str_raw
    /\ call.result = Ok

(***************************************************************************)
(* C31                                                                     *)
(***************************************************************************)

\* C31: the audit row an ingest wrote is the last row of audit_logs; it names
\* action CREATE on resource type SensorReading, the id the insert of that
\* ingest returned, the caller's sub and role, the reading's patient id and
\* status 200, with no error text; and every audit row names the id of a row
\* of sensor_readings with the same patient id.
C31_AuditEntryDescribesIngest ==
    /\ (IsIngest /\ call.audit_calls = <<"ok">>) =>
            LET e == audit_logs[Len(audit_logs)]
            IN  /\ call.status = 200
                /\ e.action = "CREATE"
                /\ e.resource_type = "SensorReading"
                /\ e.resource_id = Some(db_rows[Len(db_rows)].id)
                /\ db_rows[Len(db_rows)].patient_id = call.reading.patient_id
                /\ e.user_id = Some(Unwrap(call.claims).sub)
                /\ e.user_role = Some(Unwrap(call.claims).role)
                /\ e.patient_id = Some(call.reading.patient_id)
                /\ e.status_code = Some(200)
                /\ e.error_message = None
    /\ \A i \in 1..Len(audit_logs) :
            /\ audit_logs[i].action = "CREATE"
            /\ audit_logs[i].error_message = None
            /\ \E j \in 1..Len(db_rows) :
                    /\ audit_logs[i].resource_id = Some(db_rows[j].id)
                    /\ audit_logs[i].patient_id = Some(db_rows[j].patient_id)

\* An authenticated ingest wrote its audit row after an earlier ingest had
\* inserted a row without one.
C31_Witness ==
    /\ IsIngest /\ call.op = "ingest" /\ call.audit_calls = <<"ok">>
    /\ Len(db_rows) = 2
    /\ Len(audit_logs) = 1
    /\ audit_logs[1].resource_id = Some(2)

(***************************************************************************)
(* C32                                                                     *)
(***************************************************************************)

\* C32: a step that answers a query or a health request leaves the cache (its
\* contents, order and capacity), the database handle, both tables, the
\* history of pushes and the hub unchanged, whichever path answered.
C32_QueriesReadOnly ==
    [][call'.op \in {"get_observations", "healthz"} =>
        UNCHANGED <<readings, max, db, db_rows, audit_logs, appended, last_insert,
                    hub_sent, hubs, published>>]_vars

\* A query fell back to a full cache after the database query failed, with
\* rows and an audit row in the tables.
C32_Witness ==
    /\ IsQuery /\ call.query = "fail"
    /\ call.bundle.total = 2
    /\ Len(readings) = 2
    /\ Len(db_rows) >= 1
    /\ Len(audit_logs) >= 1

(***************************************************************************)
(* C33                                                                     *)
(***************************************************************************)

\* C33: a health request answers 200 with database "in-memory-only" when no
\* database is configured, 200 with database "connected" when one is
\* configured and its check succeeded, and the internal error with no status
\* body when the configured database's check failed.
C33_HealthzOutcomes ==
    call.op = "healthz" =>
        /\ ~IsSome(db) =>
                /\ call.status = 200
                /\ IsSome(call.body)
                /\ Unwrap(call.body).database = "in-memory-only"
        /\ (IsSome(db) /\ call.db_health = "ok") =>
                /\ call.status = 200
                /\ IsSome(call.body)
                /\ Unwrap(call.body).database = "connected"
        /\ (IsSome(db) /\ call.db_health = "fail") =>
                /\ call.status = 500
                /\ call.body = None

\* The health check of a configured database failed and the request was
\* answered 500.
C33_Witness ==
    /\ call.op = "healthz"
    /\ IsSome(db)
    /\ call.db_health = "fail"
    /\ call.status = 500

(***************************************************************************)
(* C34                                                                     *)
(***************************************************************************)

\* C34 as stated: no task awaits the ML service's health check while it is
\* inside its guarded section, and no ingest or query waits for the lock
\* while its holder awaits anything but the database.
C34_OnlyDatabaseAwaitedInGuard ==
    /\ \A t \in Tasks : At(t, "ml_health_check") => ~InGuard(t)
    /\ \A t, u \in Tasks :
            (At(t, "lock") /\ lock = Some(u)) => ~At(u, "ml_health_check")

(***************************************************************************)
(* C35                                                                     *)
(***************************************************************************)

\* C35: the step of a successful ingest makes exactly one send, of the very
\* observation it returns to the caller (same identifier, subject, value, unit
\* and timestamp); the step of a failed ingest makes none; so the number of
\* sends is the number of successful ingests.
C35_PublishedIsReturned ==
    [][call'.op \in IngestOps =>
        /\ IF call'.status = 200
           THEN /\ IsSome(call'.obs)
                /\ call'.sent = call'.obs
                /\ ShowsReading(Unwrap(call'.sent), call'.reading)
                /\ hub_sent' = hub_sent + 1
           ELSE /\ call'.sent = None
                /\ hub_sent' = hub_sent
        /\ hub_sent' = Len(appended')]_vars

\* The third successful ingest returned and sent its observation.
C35_Witness ==
    /\ IsIngest /\ call.status = 200
    /\ IsSome(call.sent) /\ call.sent = call.obs
    /\ hub_sent = 3

(***************************************************************************)
(* C36                                                                     *)
(***************************************************************************)

\* How often reading r occurs in the sequence rs.
Occurrences(rs, r) == Cardinality({i \in 1..Len(rs) : rs[i] = r})

\* C36: the lock is acquired only when free; the cache changes by an append
\* only in a step of the ingest holding the lock, which appends that ingest's
\* reading, not appended before, and leaves the cache equal to the newest
\* min(appends, capacity) readings in append order; an ingest releasing the
\* lock has appended its reading exactly once; and when no request is running
\* the cache length is min(successful ingests, capacity).  Appends therefore
\* follow the order in which the ingests acquired the lock.
C36_AppendedOnceInLockOrder ==
    [][/\ (lock' # lock /\ IsSome(lock')) =>
            /\ lock = None
            /\ At(Unwrap(lock'), "lock")
       /\ appended' # appended =>
            \E t \in Tasks :
                /\ lock = Some(t) /\ lock' = Some(t)
                /\ IsIngestTask(t)
                /\ Occurrences(appended, tasks[t].reading) = 0
                /\ appended' = Append(appended, tasks[t].reading)
                /\ readings' = SubSeq(appended', Len(appended') - Min(max, Len(appended')) + 1,
                                      Len(appended'))
       /\ \A t \in Tasks :
            (lock = Some(t) /\ lock' = None /\ IsIngestTask(t)) =>
                /\ Occurrences(appended, tasks[t].reading) = 1
                /\ appended[Len(appended)] = tasks[t].reading
       /\ (\A t \in Tasks : tasks'[t] = Idle) =>
            /\ Len(appended') = begun'
            /\ Len(readings') = Min(begun', max')]_vars

\* The ingest that began second acquired the lock first: the cache holds its
\* reading before the reading of the ingest that began first.
C36_Witness ==
    /\ Len(readings) = 2
    /\ readings = appended
    /\ readings[1].ts = 2
    /\ readings[2].ts = 1
    /\ \A t \in Tasks : tasks[t] = Idle

(***************************************************************************)
(* C37                                                                     *)
(***************************************************************************)

\* C37: with no database configured both tables stay empty, no ingest makes
\* an insert or an audit call whatever claims it carries, every accepted
\* reading is in the history of appends and the cache is its newest part, and
\* every query makes no database query and lists the newest min(limit, cache
\* length) cached readings.
C37_CacheIsSoleStore ==
    ~IsSome(db) =>
        /\ db_rows = <<>>
        /\ audit_logs = <<>>
        /\ last_insert = <<>>
        /\ readings = SubSeq(appended, Len(appended) - Min(max, Len(appended)) + 1,
                             Len(appended))
        /\ IsIngest =>
                /\ call.insert_calls = <<>>
                /\ call.audit_calls = <<>>
                /\ call.status = 200 => readings[Len(readings)] = call.reading
        /\ IsQuery =>
                /\ call.query = "none"
                /\ ShowsAll(call.bundle, NewestFirst(readings, call.limit))
        /\ call.op = "healthz" => call.db_health = "none"

\* Without a database, an ingest carrying claims filled the cache.
C37_Witness ==
    /\ ~IsSome(db)
    /\ call.op = "ingest" /\ call.status = 200
    /\ IsSome(call.claims)
    /\ Len(readings) = 2

(***************************************************************************)
(* C38                                                                     *)
(***************************************************************************)

\* The indices at which observation o occurs in the publication sequence.
PublishedAt(o) == {i \in 1..Len(published) : published[i] = o}

\* C38: what a live session has written to its websocket is a subsequence of
\* the publication sequence: every text is a published observation, sent on
\* the session's own channel at the position the text carries, and the texts
\* follow each other at strictly increasing channel positions and publication
\* indices (no duplicate, no reordering); and the ingests, which here run one
\* after the other, were published in the order the cache received them.
C38_DeliveredInPublicationOrder ==
    /\ \A s \in Sessions : Live(s) =>
            LET texts == sessions[s].texts
            IN  /\ \A k \in 1..Len(texts) :
                        /\ Cardinality(PublishedAt(texts[k].obs)) = 1
                        /\ texts[k].pos >= sessions[s].self_rx
                        /\ texts[k].pos < sessions[s].rx
                /\ \A k \in 1..(Len(texts) - 1) :
                        /\ texts[k].pos < texts[k + 1].pos
                        /\ \A i \in PublishedAt(texts[k].obs),
                              j \in PublishedAt(texts[k + 1].obs) : i < j
    /\ Len(published) = Len(appended)
    /\ \A i \in 1..Len(published) : ShowsReading(published[i], appended[i])

\* A session that lagged wrote the two observations still queued, in order,
\* having missed the first observation sent after it subscribed.
C38_Witness ==
    \E s \in Sessions :
        /\ Live(s)
        /\ sessions[s].lagged
        /\ Len(sessions[s].texts) = 2
        /\ Len(published) = 3

(***************************************************************************)
(* C39                                                                     *)
(***************************************************************************)

\* C39: an ingest can run to its response on a worker whose channel has no
\* receiver; the step of an ingest whose send stored nothing (no receiver:
\* the send returned an error) still appends the reading to the cache and
\* completes with the observation of that reading.
C39_IngestWithoutSubscribers ==
    [][/\ begun < MaxPublished =>
            \A w \in Workers : rx_cnt(w) = 0 => ENABLED ingest_public_on(w)
       /\ (IsPublish /\ hubs' = hubs) =>
            /\ \E w \in Workers : send_result(rx_cnt(w)) = "SendError"
            /\ begun' = begun + 1
            /\ appended' = Append(appended, ServerReading(begun'))
            /\ readings' # <<>>
            /\ readings'[Len(readings')] = ServerReading(begun')
            /\ ShowsReading(Sent, ServerReading(begun'))]_vars

\* Three ingests completed with no websocket ever connected: nothing was
\* stored in any channel and the cache holds the newest readings.
C39_Witness ==
    /\ \A s \in Sessions : sessions[s] = NoSession
    /\ \A w \in Workers : hubs[w] = channel
    /\ Len(published) = 3
    /\ Len(appended) = 3
    /\ Len(readings) = max

(***************************************************************************)
(* C40                                                                     *)
(***************************************************************************)

\* C40: under fair scheduling, with every database, audit and ML service call
\* returning, every request task that has begun (ingest, query or health
\* request) eventually completes, and the lock is eventually released by
\* every task that acquired it.
C40_RequestsComplete ==
    \A t \in Tasks :
        /\ (tasks[t].op # "idle") ~> (tasks[t].op = "idle")
        /\ (lock = Some(t)) ~> (lock # Some(t))

\* An ingest waits for the lock while a health request holds it and awaits
\* the ML service.
C40_Witness ==
    \E t, u \in Tasks :
        /\ IsIngestTask(t) /\ At(t, "lock")
        /\ At(u, "ml_health_check") /\ lock = Some(u)

====
